---- MODULE Spec2Model ----
(***************************************************************************)
(* FerretDB, package pgdb (internal/handlers/pg/pgdb/databases.go):        *)
(* Databases, CreateDatabase, CreateDatabaseIfNotExists and DropDatabase,  *)
(* called concurrently by several connections on one PostgreSQL backend.   *)
(*                                                                         *)
(* The validation regex, the prefix tests and the ORDER BY of the listing   *)
(* are computed on the characters of the names, Chars(name).               *)
(***************************************************************************)
EXTENDS Integers, Sequences, FiniteSets, TLC

VARIABLES
    schemata,   \* backend: the schema names of the database (pg_namespace)
    tables,     \* backend: the relations, as <<schema name, relation name>>
    pc,         \* per caller: the statement its call is waiting on
    op,         \* per caller: the function it called
    db,         \* per caller: the db argument of the call
    res,        \* per caller: the error the call returned (at pc = "done")
    list,       \* per caller: the []string Databases returned
    sent,       \* history, per caller: the call has sent a SQL statement
    berr,       \* history, per caller: the backend error that ended the call
    created,    \* history, per caller: the call's own statement created its schema
    live        \* history: the names a create call returned nil for, not dropped since

vars == <<schemata, tables, pc, op, db, res, list, sent, berr, created, live>>

backend == <<schemata, tables>>

(* ------------------------------ bounds --------------------------------- *)

NumProcs == 2

Procs == 1..NumProcs

(* ------------------------------- names --------------------------------- *)

N_a == "a"

N_public == "public"

N_pg_catalog == "pg_catalog"

N_information_schema == "information_schema"

N_ferretdb_x == "_ferretdb_x"

N_1a == "1a"

N_b == "b"

\* 63 times "a": the longest name the regex allows.
N_a63 == "aaaaaaaaaaaaaaaaaaaaaaaaaaaaaaaaaaaaaaaaaaaaaaaaaaaaaaaaaaaaaaa"

\* 64 times "a": one character more than the regex allows.
N_long == "aaaaaaaaaaaaaaaaaaaaaaaaaaaaaaaaaaaaaaaaaaaaaaaaaaaaaaaaaaaaaaaa"

NoName == ""

PgPrefix == "pg_"

reservedPrefix == "_ferretdb_"

\* The characters of a string.
Chars(s) ==
    CASE s = N_a -> <<"a">>
      [] s = N_b -> <<"b">>
      [] s = N_public -> <<"p", "u", "b", "l", "i", "c">>
      [] s = N_pg_catalog -> <<"p", "g", "_", "c", "a", "t", "a", "l", "o", "g">>
      [] s = N_information_schema ->
            <<"i", "n", "f", "o", "r", "m", "a", "t", "i", "o", "n", "_",
              "s", "c", "h", "e", "m", "a">>
      [] s = N_ferretdb_x -> <<"_", "f", "e", "r", "r", "e", "t", "d", "b", "_", "x">>
      [] s = N_1a -> <<"1", "a">>
      [] s = N_a63 -> [i \in 1..63 |-> "a"]
      [] s = N_long -> [i \in 1..64 |-> "a"]
      [] s = NoName -> <<>>
      [] s = PgPrefix -> <<"p", "g", "_">>
      [] s = reservedPrefix -> <<"_", "f", "e", "r", "r", "e", "t", "d", "b", "_">>

\* The db arguments the callers pass.
Names == {N_a, N_pg_catalog, N_information_schema, N_ferretdb_x, N_1a, N_long}

Lower ==
    {"a", "b", "c", "d", "e", "f", "g", "h", "i", "j", "k", "l", "m",
     "n", "o", "p", "q", "r", "s", "t", "u", "v", "w", "x", "y", "z"}

Digits == {"0", "1", "2", "3", "4", "5", "6", "7", "8", "9"}

\* The characters of the names, in byte order (the "C" collation of
\* information_schema.sql_identifier).
Alphabet ==
    <<"-", "0", "1", "2", "3", "4", "5", "6", "7", "8", "9", "_">> \o
    <<"a", "b", "c", "d", "e", "f", "g", "h", "i", "j", "k", "l", "m",
      "n", "o", "p", "q", "r", "s", "t", "u", "v", "w", "x", "y", "z">>

Ord(c) == CHOOSE i \in 1..Len(Alphabet) : Alphabet[i] = c

\* strings.HasPrefix(s, prefix)
HasPrefix(s, prefix) ==
    /\ Len(Chars(s)) >= Len(Chars(prefix))
    /\ SubSeq(Chars(s), 1, Len(Chars(prefix))) = Chars(prefix)

\* [a-z_-][a-z0-9_-]{0,62}: the repetition bound of the regex.
MaxRest == 62

\* validateDatabaseNameRe.MatchString(s), the regex matching the whole name.
MatchString(s) ==
    LET cs == Chars(s) IN
    /\ Len(cs) >= 1
    /\ Len(cs) <= 1 + MaxRest
    /\ cs[1] \in Lower \cup {"_", "-"}
    /\ \A i \in 2..Len(cs) : cs[i] \in Lower \cup Digits \cup {"_", "-"}

settingsTableName == "_ferretdb_settings"

\* The test without its reserved-prefix half.
InvalidDatabaseName_NoPrefix(s) == ~MatchString(s)

\* The test CreateDatabase and CreateDatabaseIfNotExists start with.
InvalidDatabaseName(s) ==
    \/ ~MatchString(s)
    \/ HasPrefix(s, reservedPrefix)

(* ------------------------------ errors --------------------------------- *)
\* An error is its cause and the number of lazyerrors.Error wrappers on it.

Err(c) == [lazy |-> 0, cause |-> c]

nil == Err("nil")

ErrAlreadyExist == Err("ErrAlreadyExist")

ErrInvalidDatabaseName == Err("ErrInvalidDatabaseName")

ErrSchemaNotExist == Err("ErrSchemaNotExist")

\* pgerrcode: the SQLSTATEs the backend raises here.
DuplicateSchema == "42P06"

UniqueViolation == "23505"

DuplicateObject == "42710"

InvalidSchemaName == "3F000"

DuplicateTable == "42P07"

UndefinedTable == "42P01"

ReservedName == "42939"

DependentObjectsStillExist == "2BP01"

QueryCanceled == "57014"

PgCodes ==
    {DuplicateSchema, UniqueViolation, DuplicateObject, InvalidSchemaName,
     DuplicateTable, UndefinedTable, ReservedName,
     DependentObjectsStillExist, QueryCanceled}

\* An error of the connection, not a *pgconn.PgError.
ConnClosed == "conn closed"

\* lazyerrors.Error(err): wraps err, which errors.Is/As still reach.
lazyerrors_Error(e) == [e EXCEPT !.lazy = @ + 1]

\* errors.As(err, &pgErr)
errors_As_PgError(e) == e.cause \in PgCodes

\* errors.Is(err, target)
errors_Is(e, target) == e.cause = target.cause

\* err.(*pgconn.PgError): the type assertion sees no wrapped error.
IsPgError(e) == e.lazy = 0 /\ e.cause \in PgCodes

\* CreateDatabase without the UniqueViolation case of its switch.
CreateDatabaseResult_NoUniqueViolation(err) ==
    IF err = nil THEN nil
    ELSE IF ~errors_As_PgError(err) THEN lazyerrors_Error(err)
    ELSE IF err.cause = DuplicateSchema THEN ErrAlreadyExist
    ELSE IF err.cause \in {DuplicateObject} THEN ErrAlreadyExist
    ELSE lazyerrors_Error(err)

\* CreateDatabase with the DuplicateSchema case of its switch only.
CreateDatabaseResult_OnlyDuplicateSchema(err) ==
    IF err = nil THEN nil
    ELSE IF ~errors_As_PgError(err) THEN lazyerrors_Error(err)
    ELSE IF err.cause = DuplicateSchema THEN ErrAlreadyExist
    ELSE lazyerrors_Error(err)

\* CreateDatabase from "if err == nil { return nil }" on: what it returns
\* for the err of its two steps.
CreateDatabaseResult(err) ==
    IF err = nil THEN nil
    ELSE IF ~errors_As_PgError(err) THEN lazyerrors_Error(err)
    ELSE IF err.cause = DuplicateSchema THEN ErrAlreadyExist
    ELSE IF err.cause \in {UniqueViolation, DuplicateObject} THEN ErrAlreadyExist
    ELSE lazyerrors_Error(err)

\* CreateDatabaseIfNotExists from "if err == nil || errors.Is(...)" on.
CreateDatabaseIfNotExistsResult(err) ==
    IF err = nil \/ errors_Is(err, ErrAlreadyExist) THEN nil
    ELSE IF ~errors_As_PgError(err) THEN lazyerrors_Error(err)
    ELSE IF err.cause = DuplicateSchema THEN ErrAlreadyExist
    ELSE IF err.cause \in {UniqueViolation, DuplicateObject} THEN ErrAlreadyExist
    ELSE lazyerrors_Error(err)

\* DropDatabase from "if err == nil { return nil }" on.
DropDatabaseResult(err) ==
    IF err = nil THEN nil
    ELSE IF ~IsPgError(err) THEN lazyerrors_Error(err)
    ELSE IF err.cause = InvalidSchemaName THEN ErrSchemaNotExist
    ELSE lazyerrors_Error(err)

\* Databases: every error of the query is wrapped.
DatabasesResult(err) ==
    IF err = nil THEN nil ELSE lazyerrors_Error(err)

CreateOps == {"CreateDatabase", "CreateDatabaseIfNotExists"}

Ops == CreateOps \cup {"DropDatabase", "Databases"}

Result(o, err) ==
    CASE o = "CreateDatabase" -> CreateDatabaseResult(err)
      [] o = "CreateDatabaseIfNotExists" -> CreateDatabaseIfNotExistsResult(err)
      [] o = "DropDatabase" -> DropDatabaseResult(err)
      [] o = "Databases" -> DatabasesResult(err)

(* ----------------------------- the listing ----------------------------- *)

RECURSIVE CharsLess(_, _)
\* cs < ct in byte order
CharsLess(cs, ct) ==
    IF cs = <<>> THEN ct # <<>>
    ELSE IF ct = <<>> THEN FALSE
    ELSE IF cs[1] # ct[1] THEN Ord(cs[1]) < Ord(ct[1])
    ELSE CharsLess(Tail(cs), Tail(ct))

\* s < t for two names
NameLess(s, t) == CharsLess(Chars(s), Chars(t))

RECURSIVE OrderBy(_)
\* SELECT schema_name FROM information_schema.schemata ORDER BY schema_name
OrderBy(S) ==
    IF S = {} THEN <<>>
    ELSE LET m == CHOOSE x \in S : \A y \in S \ {x} : NameLess(x, y)
         IN <<m>> \o OrderBy(S \ {m})

\* The test of the loop without its information_schema half.
Skipped_PgOnly(name) == HasPrefix(name, PgPrefix)

\* The test of the loop with the prefix test negated.
Skipped_NotPg(name) ==
    \/ ~HasPrefix(name, PgPrefix)
    \/ name = N_information_schema

\* The test of the rows.Next() loop: the names Databases skips.
Skipped(name) ==
    \/ HasPrefix(name, PgPrefix)
    \/ name = N_information_schema

RECURSIVE ScanRows(_)
\* The rows.Next() loop of Databases over the rows of the query.
ScanRows(rws) ==
    IF rws = <<>> THEN <<>>
    ELSE IF Skipped(Head(rws)) THEN ScanRows(Tail(rws))
    ELSE <<Head(rws)>> \o ScanRows(Tail(rws))

(* ------------------------------- backend ------------------------------- *)

\* PostgreSQL reserves the schema names that begin with pg_ for the system:
\* CREATE SCHEMA, with or without IF NOT EXISTS, rejects such a name with
\* SQLSTATE 42939 before it looks the name up, and DROP SCHEMA refuses to
\* drop pg_catalog (2BP01). information_schema is an ordinary schema.
IsReservedName(name) == HasPrefix(name, PgPrefix)

\* The length of a name of the backend, its terminator included.
NAMEDATALEN == 64

\* The names statements can name a schema by.
Identifiers == Names \cup {N_public, N_a63, N_b}

\* PostgreSQL reads an identifier of a statement, quoted or not, up to
\* NAMEDATALEN - 1 bytes and drops the rest with a NOTICE: the schema a
\* statement names by name.
PgIdentifier(name) ==
    IF Len(Chars(name)) < NAMEDATALEN THEN name
    ELSE CHOOSE t \in Identifiers :
             Chars(t) = SubSeq(Chars(name), 1, NAMEDATALEN - 1)

SettingsTable(name) == <<name, settingsTableName>>

SchemataView == <<N_information_schema, "schemata">>

\* DROP SCHEMA name CASCADE: the schema and every object in it.
DropCascade(name, S) == {t \in S : t[1] # name}

(* -------------------------------- Init --------------------------------- *)

\* The schemas of a new PostgreSQL database.
InitialSchemata == {N_pg_catalog, N_information_schema, N_public}

Init ==
    /\ schemata = InitialSchemata
    /\ tables = {SchemataView}
    /\ pc = [p \in Procs |-> "idle"]
    /\ op = [p \in Procs |-> "none"]
    /\ db = [p \in Procs |-> NoName]
    /\ res = [p \in Procs |-> nil]
    /\ list = [p \in Procs |-> <<>>]
    /\ sent = [p \in Procs |-> FALSE]
    /\ berr = [p \in Procs |-> "none"]
    /\ created = [p \in Procs |-> FALSE]
    /\ live = {}

(* ------------------------------- actions ------------------------------- *)

\* The call of p returns the result of its function for err; e is the
\* backend error behind err ("none" when err is no backend error).
Finish(p, err, e) ==
    /\ pc' = [pc EXCEPT ![p] = "done"]
    /\ res' = [res EXCEPT ![p] = Result(op[p], err)]
    /\ berr' = [berr EXCEPT ![p] = e]

\* p calls o(ctx, querier, n). The create functions validate n first; every
\* function then sends its first statement.
Call(p, o, n) ==
    /\ pc[p] = "idle"
    /\ op' = [op EXCEPT ![p] = o]
    /\ db' = [db EXCEPT ![p] = n]
    /\ IF o \in CreateOps /\ InvalidDatabaseName(n)
       THEN /\ pc' = [pc EXCEPT ![p] = "done"]
            /\ res' = [res EXCEPT ![p] = ErrInvalidDatabaseName]
            /\ UNCHANGED sent
       ELSE /\ pc' = [pc EXCEPT ![p] =
                   CASE o \in CreateOps -> "CreateSchema"
                     [] o = "DropDatabase" -> "DropSchema"
                     [] o = "Databases" -> "Query"]
            /\ sent' = [sent EXCEPT ![p] = TRUE]
            /\ UNCHANGED res
    /\ UNCHANGED <<schemata, tables, list, berr, created, live>>

\* The backend takes up CREATE SCHEMA [IF NOT EXISTS]: the reserved-name
\* check and the lookup of the name.
PgCreateSchema(p) ==
    /\ pc[p] = "CreateSchema"
    /\ IF IsReservedName(PgIdentifier(db[p]))
       THEN Finish(p, Err(ReservedName), ReservedName)
       ELSE IF PgIdentifier(db[p]) \in schemata
       THEN IF op[p] = "CreateDatabaseIfNotExists"
            THEN /\ pc' = [pc EXCEPT ![p] = "tables"]
                 /\ UNCHANGED <<res, berr>>
            ELSE Finish(p, Err(DuplicateSchema), DuplicateSchema)
       ELSE /\ pc' = [pc EXCEPT ![p] = "NamespaceCreate"]
            /\ UNCHANGED <<res, berr>>
    /\ UNCHANGED <<schemata, tables, op, db, list, sent, created, live>>

\* The backend inserts the schema into its catalog; the unique index on the
\* name rejects the insert when another statement has inserted it since the
\* lookup.
PgNamespaceCreate(p) ==
    /\ pc[p] = "NamespaceCreate"
    /\ IF PgIdentifier(db[p]) \in schemata
       THEN /\ Finish(p, Err(UniqueViolation), UniqueViolation)
            /\ UNCHANGED <<schemata, created>>
       ELSE /\ schemata' = schemata \cup {PgIdentifier(db[p])}
            /\ created' = [created EXCEPT ![p] = TRUE]
            /\ pc' = [pc EXCEPT ![p] = "tables"]
            /\ UNCHANGED <<res, berr>>
    /\ UNCHANGED <<tables, op, db, list, sent, live>>

\* createSettingsTable: the list of the tables of db; ErrAlreadyExist when
\* the settings table is among them.
SettingsLookup(p) ==
    /\ pc[p] = "tables"
    /\ IF SettingsTable(db[p]) \in tables
       THEN /\ Finish(p, ErrAlreadyExist, "none")
            /\ live' = IF Result(op[p], ErrAlreadyExist) = nil
                       THEN live \cup {db[p]} ELSE live
       ELSE /\ pc' = [pc EXCEPT ![p] = "CreateTable"]
            /\ UNCHANGED <<res, berr, live>>
    /\ UNCHANGED <<schemata, tables, op, db, list, sent, created>>

\* The SQLSTATEs of CREATE TABLE for a table another statement has created:
\* the relation is found, its row type is found, or the catalog insert
\* hits the unique index.
CreateTableDuplicate == {DuplicateTable, DuplicateObject, UniqueViolation}

\* createSettingsTable: CREATE TABLE db._ferretdb_settings (settings jsonb)
\* and the INSERT of its one row, the last statements of a create call.
PgCreateTable(p) ==
    /\ pc[p] = "CreateTable"
    /\ IF PgIdentifier(db[p]) \notin schemata
       THEN /\ Finish(p, lazyerrors_Error(Err(InvalidSchemaName)), InvalidSchemaName)
            /\ UNCHANGED <<tables, live>>
       ELSE IF SettingsTable(PgIdentifier(db[p])) \in tables
       THEN /\ \E c \in CreateTableDuplicate : Finish(p, lazyerrors_Error(Err(c)), c)
            /\ UNCHANGED <<tables, live>>
       ELSE /\ tables' = tables \cup {SettingsTable(PgIdentifier(db[p]))}
            /\ live' = live \cup {db[p]}
            /\ Finish(p, nil, "none")
    /\ UNCHANGED <<schemata, op, db, list, sent, created>>

\* DropDatabase: DROP SCHEMA db CASCADE, one statement of the backend, for
\* the schema the identifier db names. It fails with 3F000 for a missing
\* schema and with 2BP01 for a system schema.
PgDropSchema(p) ==
    /\ pc[p] = "DropSchema"
    /\ IF PgIdentifier(db[p]) \notin schemata
       THEN /\ Finish(p, Err(InvalidSchemaName), InvalidSchemaName)
            /\ UNCHANGED <<schemata, tables, live>>
       ELSE IF IsReservedName(PgIdentifier(db[p]))
       THEN /\ Finish(p, Err(DependentObjectsStillExist), DependentObjectsStillExist)
            /\ UNCHANGED <<schemata, tables, live>>
       ELSE /\ schemata' = schemata \ {PgIdentifier(db[p])}
            /\ tables' = DropCascade(PgIdentifier(db[p]), tables)
            /\ live' = live \ {PgIdentifier(db[p])}
            /\ Finish(p, nil, "none")
    /\ UNCHANGED <<op, db, list, sent, created>>

\* Databases: the query and the loop over its rows. The query fails with
\* 42P01 once information_schema, and its view schemata with it, is dropped.
PgQuerySchemata(p) ==
    /\ pc[p] = "Query"
    /\ IF SchemataView \notin tables
       THEN /\ Finish(p, Err(UndefinedTable), UndefinedTable)
            /\ UNCHANGED list
       ELSE /\ list' = [list EXCEPT ![p] = ScanRows(OrderBy(schemata))]
            /\ Finish(p, nil, "none")
    /\ UNCHANGED <<schemata, tables, op, db, sent, created, live>>

\* The caller takes the result; its connection is free for the next call.
Return(p) ==
    /\ pc[p] = "done"
    /\ pc' = [pc EXCEPT ![p] = "idle"]
    /\ op' = [op EXCEPT ![p] = "none"]
    /\ db' = [db EXCEPT ![p] = NoName]
    /\ res' = [res EXCEPT ![p] = nil]
    /\ list' = [list EXCEPT ![p] = <<>>]
    /\ sent' = [sent EXCEPT ![p] = FALSE]
    /\ berr' = [berr EXCEPT ![p] = "none"]
    /\ created' = [created EXCEPT ![p] = FALSE]
    /\ UNCHANGED <<schemata, tables, live>>

\* The statements of createSettingsTable, whose errors it wraps.
SettingsSteps == {"tables", "CreateTable"}

Pending == {"CreateSchema", "NamespaceCreate", "DropSchema", "Query"} \cup SettingsSteps

\* The failures of a statement that are not about the schema: the query is
\* cancelled (a PgError), or the connection is lost (no PgError).
Failures == {QueryCanceled, ConnClosed}

\* The statement p waits on fails.
ExecFails(p) ==
    /\ pc[p] \in Pending
    /\ \E c \in Failures :
          Finish(p, IF pc[p] \in SettingsSteps
                    THEN lazyerrors_Error(Err(c)) ELSE Err(c), c)
    /\ UNCHANGED <<schemata, tables, op, db, list, sent, created, live>>

\* The steps of the create functions.
CreateStep(p) ==
    \/ PgCreateSchema(p)
    \/ PgNamespaceCreate(p)
    \/ SettingsLookup(p)
    \/ PgCreateTable(p)

Step(p) ==
    \/ CreateStep(p)
    \/ PgDropSchema(p)
    \/ PgQuerySchemata(p)
    \/ Return(p)

\* The db arguments of the create functions when calls run concurrently.
ConcurrentCreateNames == Names \ {N_information_schema}

Next ==
    \E p \in Procs :
        \/ \E o \in CreateOps, n \in ConcurrentCreateNames : Call(p, o, n)
        \/ \E n \in Names : Call(p, "DropDatabase", n)
        \/ Call(p, "Databases", NoName)
        \/ Step(p)

\* Concurrent calls; every statement runs to its end (none is cancelled, no
\* connection is lost).
Spec == Init /\ [][Next]_vars

NextCreateFaults ==
    \E p \in Procs :
        \/ \E o \in CreateOps, n \in Names : Call(p, o, n)
        \/ CreateStep(p)
        \/ Return(p)
        \/ ExecFails(p)

\* The callers call the create functions only, and statements may fail.
SpecCreateFaults == Init /\ [][NextCreateFaults]_vars

NextSeq ==
    \E p \in Procs :
        /\ \A q \in Procs \ {p} : pc[q] \in {"idle", "done"}
        /\ \/ \E o \in Ops \ {"Databases"}, n \in Names : Call(p, o, n)
           \/ Call(p, "Databases", NoName)
           \/ Step(p)

\* One call at a time: a caller acts when no other call is running.
SpecSeq == Init /\ [][NextSeq]_vars

NextCINE ==
    \E p \in Procs :
        \/ Call(p, "CreateDatabaseIfNotExists", N_a)
        \/ CreateStep(p)
        \/ Return(p)

\* Every caller calls CreateDatabaseIfNotExists with the same valid name.
SpecCINE == Init /\ [][NextCINE]_vars

\* The valid names of the callers that all call CreateDatabase.
NewNames == {N_a, N_b}

NextCreate ==
    \E p \in Procs :
        \/ \E n \in NewNames : Call(p, "CreateDatabase", n)
        \/ CreateStep(p)
        \/ Return(p)

\* Every caller calls CreateDatabase with a valid name whose schema does not
\* exist at first; calls with the same name run concurrently.
SpecCreate == Init /\ [][NextCreate]_vars

\* The db arguments of the callers that use the longest names.
LongNames == {N_a63, N_long}

NextLongNames ==
    \E p \in Procs :
        \/ \E o \in CreateOps \cup {"DropDatabase"}, n \in LongNames : Call(p, o, n)
        \/ Call(p, "Databases", NoName)
        \/ Step(p)

\* Concurrent calls with the longest name the validation accepts and with a
\* name one character longer.
SpecLongNames == Init /\ [][NextLongNames]_vars

(* ------------------------------- claims -------------------------------- *)

Active(p) == pc[p] \notin {"idle", "done"}

\* p takes a step of its call.
Moves(p) == pc'[p] # pc[p]

\* C1: concurrent CreateDatabaseIfNotExists(n) calls with one valid name n:
\* no call returns an error, and once calls have finished with none still
\* running, schema n exists. (Checked with every caller calling
\* CreateDatabaseIfNotExists("a").)
C1_NoCallReturnsAnError ==
    /\ \A p \in Procs : pc[p] = "done" => res[p] = nil
    /\ (/\ \A p \in Procs : ~Active(p)
        /\ \E p \in Procs : pc[p] = "done") => N_a \in schemata

\* C2: no function that takes a database name has sent a SQL statement for
\* a name that does not match the validation regex.
C2_NoSqlForInvalidName ==
    \A p \in Procs :
        (sent[p] /\ op[p] \in CreateOps \cup {"DropDatabase"}) => MatchString(db[p])

\* The names CreateDatabase and CreateDatabaseIfNotExists must reject.
C3_Rejected(n) == ~MatchString(n) \/ HasPrefix(n, reservedPrefix)

\* C3: a create call with a name that fails the regex or begins with the
\* reserved prefix returns ErrInvalidDatabaseName, sends no statement, and
\* the whole call, one step, leaves the schemas and tables as they were.
C3_InvalidNameRejected ==
    /\ [](\A p \in Procs :
            (op[p] \in CreateOps /\ C3_Rejected(db[p])) =>
                /\ pc[p] = "done"
                /\ res[p] = ErrInvalidDatabaseName
                /\ ~sent[p])
    /\ [][\A p \in Procs :
            (pc[p] = "idle" /\ Moves(p) /\ op'[p] \in CreateOps
               /\ C3_Rejected(db'[p])) =>
                /\ pc'[p] = "done"
                /\ backend' = backend]_vars

\* A create call with a reserved-prefix name, which matches the regex, was
\* rejected, and so was one with a name the regex fails.
C3_Witness ==
    /\ \E p \in Procs :
          /\ pc[p] = "done" /\ op[p] = "CreateDatabase"
          /\ db[p] = N_ferretdb_x /\ MatchString(db[p])
          /\ res[p] = ErrInvalidDatabaseName
    /\ \E p \in Procs :
          /\ pc[p] = "done" /\ op[p] = "CreateDatabaseIfNotExists"
          /\ db[p] = N_long /\ ~MatchString(db[p])
          /\ res[p] = ErrInvalidDatabaseName

\* The SQLSTATEs the create functions report as ErrAlreadyExist.
Classified == {DuplicateSchema, UniqueViolation, DuplicateObject}

\* C4: CreateDatabase(n) for a valid n returns ErrAlreadyExist when its CREATE
\* SCHEMA finds schema n existing, changing nothing; it returns nil only
\* when its own statement created schema n, which then exists with its
\* settings table; and it returns nothing but nil, ErrAlreadyExist (errors.Is)
\* or ErrInvalidDatabaseName.
C4_Original ==
    /\ [](\A p \in Procs :
            (pc[p] = "done" /\ op[p] = "CreateDatabase") =>
                \/ res[p] \in {nil, ErrInvalidDatabaseName}
                \/ errors_Is(res[p], ErrAlreadyExist))
    /\ [][\A p \in Procs :
            (pc[p] = "CreateSchema" /\ Moves(p) /\ op[p] = "CreateDatabase"
               /\ db[p] \in schemata) =>
                /\ pc'[p] = "done"
                /\ res'[p] = ErrAlreadyExist
                /\ backend' = backend]_vars
    /\ [][\A p \in Procs :
            (op[p] = "CreateDatabase" /\ Moves(p) /\ pc'[p] = "done"
               /\ res'[p] = nil) =>
                /\ created[p]
                /\ db[p] \in schemata'
                /\ SettingsTable(db[p]) \in tables']_vars

\* The names the validation of the create functions accepts.
Accepted(n) == MatchString(n) /\ ~HasPrefix(n, reservedPrefix)

\* C5, calls in sequence: CreateDatabaseIfNotExists(n) for an
\* accepted n whose schema existed before the call (the call did not create
\* it) returns nil.
C5_Original ==
    \A p \in Procs :
        (pc[p] = "done" /\ op[p] = "CreateDatabaseIfNotExists"
           /\ Accepted(db[p]) /\ db[p] \in schemata /\ ~created[p]) =>
            res[p] = nil

\* What DROP SCHEMA n CASCADE leaves of the tables.
C6_TablesWithout(n) == {t \in tables : t[1] # n}

\* C6: the DROP SCHEMA of DropDatabase(n) returns
\* ErrSchemaNotExist exactly when schema n does not exist, and then changes
\* nothing; when schema n exists it returns nil and removes the schema with
\* every table in it, so that n is gone for the next call.
C6_Original ==
    [][\A p \in Procs :
        (pc[p] = "DropSchema" /\ Moves(p)) =>
            /\ pc'[p] = "done"
            /\ (res'[p] = ErrSchemaNotExist) <=> (db[p] \notin schemata)
            /\ db[p] \notin schemata => backend' = backend
            /\ db[p] \in schemata =>
                  /\ res'[p] = nil
                  /\ schemata' = schemata \ {db[p]}
                  /\ tables' = C6_TablesWithout(db[p])]_vars

\* The schemas Databases is to list.
C7_Listed(S) ==
    {n \in S : ~HasPrefix(n, PgPrefix) /\ n # N_information_schema}

\* C7: the list Databases returns holds exactly the existing schemas whose
\* name neither begins with pg_ nor is information_schema, in strictly
\* ascending byte order (so each once); no list ever holds a name that
\* begins with pg_ or is information_schema.
C7_DatabasesSortedAndFiltered ==
    /\ [][\A p \in Procs :
            (pc[p] = "Query" /\ Moves(p) /\ res'[p] = nil) =>
                LET l == list'[p] IN
                /\ {l[i] : i \in 1..Len(l)} = C7_Listed(schemata)
                /\ \A i, j \in 1..Len(l) : i < j => NameLess(l[i], l[j])]_vars
    /\ [](\A p \in Procs : \A i \in 1..Len(list[p]) :
            /\ ~HasPrefix(list[p][i], PgPrefix)
            /\ list[p][i] # N_information_schema)

\* Databases has returned <<"a", "public">> while pg_catalog and
\* information_schema exist.
C7_Witness ==
    \E p \in Procs :
        /\ pc[p] = "done" /\ op[p] = "Databases" /\ res[p] = nil
        /\ list[p] = <<N_a, N_public>>
        /\ {N_pg_catalog, N_information_schema} \subseteq schemata

\* C8: a schema made by a create call has its settings table whenever no
\* create call for its name is running, also after a statement of the
\* settings-table step failed. (Checked with create calls only, so that the
\* schemas beyond the initial ones are the ones the create calls made.)
C8_SettingsTableOfEveryDatabase ==
    \A n \in schemata \ InitialSchemata :
        (\A p \in Procs : ~(Active(p) /\ op[p] \in CreateOps /\ db[p] = n)) =>
            SettingsTable(n) \in tables

\* C9: a create call ended by a backend error with SQLSTATE 42P06, 23505 or
\* 42710 returns ErrAlreadyExist; ended by any other backend error, a
\* PgError or not, it returns that error wrapped, which is neither
\* ErrAlreadyExist nor ErrInvalidDatabaseName; it never returns nil.
C9_BackendErrorsOfCreate ==
    \A p \in Procs :
        (pc[p] = "done" /\ op[p] \in CreateOps /\ berr[p] # "none") =>
            /\ res[p] # nil
            /\ berr[p] \in Classified => res[p] = ErrAlreadyExist
            /\ berr[p] \notin Classified =>
                  /\ res[p].lazy >= 1
                  /\ res[p].cause = berr[p]
                  /\ ~errors_Is(res[p], ErrAlreadyExist)
                  /\ ~errors_Is(res[p], ErrInvalidDatabaseName)

\* One create call lost a race for the schema (23505) and returned
\* ErrAlreadyExist, another lost its connection and returned the wrapped
\* error.
C9_Witness ==
    \E p, q \in Procs :
        /\ pc[p] = "done" /\ op[p] = "CreateDatabase"
        /\ berr[p] = UniqueViolation /\ res[p] = ErrAlreadyExist
        /\ pc[q] = "done" /\ op[q] \in CreateOps
        /\ berr[q] = ConnClosed /\ res[q].lazy >= 1 /\ res[q].cause = ConnClosed

\* C10: a schema stops existing only in the DROP SCHEMA step of a
\* DropDatabase call with its name that returns nil, and that step leaves
\* every other schema and the tables of every other schema as they were.
C10_DroppedOnlyByDropDatabase ==
    [][\A n \in schemata \ schemata' :
        \E p \in Procs :
            /\ op[p] = "DropDatabase" /\ db[p] = n
            /\ pc[p] = "DropSchema" /\ pc'[p] = "done"
            /\ res'[p] = nil
            /\ schemata' = schemata \ {n}
            /\ {t \in tables' : t[1] # n} = {t \in tables : t[1] # n}]_vars

\* name is an element of the list l.
C11_InList(name, l) == \E i \in 1..Len(l) : l[i] = name

\* C11 as stated, calls in sequence: every name the validation accepts, one
\* that begins with pg_ included, for which a create call returned nil and
\* which has not been dropped since, is in the list Databases returns.
C11_Original ==
    [][\A p \in Procs :
        (pc[p] = "Query" /\ Moves(p) /\ res'[p] = nil) =>
            \A n \in live : Accepted(n) => C11_InList(n, list'[p])]_vars

\* C11, amended, calls in sequence: a create call returns nil for accepted
\* names only, and every such name that neither begins with pg_ nor is
\* information_schema, not dropped since, is in the list Databases returns.
C11_Amended ==
    /\ [](\A n \in live : Accepted(n) /\ n \in schemata)
    /\ [][\A p \in Procs :
            (pc[p] = "Query" /\ Moves(p) /\ res'[p] = nil) =>
                \A n \in live :
                    (~HasPrefix(n, PgPrefix) /\ n # N_information_schema) =>
                        C11_InList(n, list'[p])]_vars

\* A create call has returned nil for "a", and Databases, called after it,
\* has returned a list with "a" in it.
C11_Witness ==
    \E p, q \in Procs :
        /\ pc[p] = "done" /\ op[p] \in CreateOps /\ db[p] = N_a /\ res[p] = nil
        /\ N_a \in live
        /\ pc[q] = "done" /\ op[q] = "Databases" /\ res[q] = nil
        /\ C11_InList(N_a, list[q])

C13_CreatorNeverAlreadyExist ==
    \A p \in Procs :
        (pc[p] = "done" /\ op[p] = "CreateDatabase" /\ created[p]) =>
            ~errors_Is(res[p], ErrAlreadyExist)

\* C14: the DROP SCHEMA of a DropDatabase call, whatever its argument,
\* removes no schema whose name begins with pg_ or is information_schema:
\* every schema it removes is one Databases lists.
C14_DropsOnlyListedSchemas ==
    [][\A p \in Procs :
        (pc[p] = "DropSchema" /\ Moves(p)) =>
            \A n \in schemata \ schemata' :
                /\ ~HasPrefix(n, PgPrefix)
                /\ n # N_information_schema]_vars
====
